---- MODULE Spec2Model ----
(***************************************************************************)
(* Gift card validator (src/server.js): an express server that keeps a    *)
(* map of gift cards and one global price in memory, mirrors both to two  *)
(* JSON files after every mutation, and reloads them at startup.          *)
(*                                                                         *)
(* Spec models one request at a time: every handler runs to its response  *)
(* (its saveData included, both writes succeeding) before the next        *)
(* request is taken.  The process can be killed, be stopped by a signal   *)
(* and be started again at any time.                                      *)
(***************************************************************************)
EXTENDS Integers, Sequences, FiniteSets, TLC

VARIABLES
    running,        \* the node process is up (startServer has completed)
    giftCards,      \* `let giftCards`: own properties in enumeration order
    currentPrice,   \* `let currentPrice`: None is null
    objectCtor,     \* properties the handlers have written on the inherited
                    \* `constructor` member (the global Object function)
    cardsFile,      \* data/cards.json: None when the file does not exist
    priceFile,      \* data/price.json: None when the file does not exist
    now,            \* the clock read by new Date()
    req,            \* the request being answered (NoRequest between requests)
    res,            \* the response the handler gave for it
    flushed,        \* what memory held when the last saveData completed
    handled,        \* number of requests taken so far
    tasks,          \* the handlers suspended at an await of saveData, and
                    \* the responses they gave
    torn,           \* the files whose content is not a JSON text
    dead            \* what the crash of the process has interrupted, until
                    \* the next process starts

vars == <<running, giftCards, currentPrice, objectCtor, cardsFile, priceFile,
          now, req, res, flushed, handled, tasks, torn, dead>>

\* the state of the step-by-step handlers
asyncVars == <<tasks, torn, dead>>

(***************************************************************************)
(* Bounds of the model.                                                    *)
(***************************************************************************)
MaxClock == 1
MaxRequests == 3
\* handlers that can be suspended at the same time
MaxInFlight == 2
\* requests taken in a step-by-step run
MaxArrivals == 2

(***************************************************************************)
(* Optional values: an absent property, null, a missing file.             *)
(***************************************************************************)
None == {}
Some(x) == {x}
The(s) == CHOOSE x \in s : TRUE

(***************************************************************************)
(* Values a JSON request body can carry.                                  *)
(*   text fields (username, password, status, currency): type and value   *)
(*   code: type and the characters of the string (of the decimal numeral  *)
(*         for a number)                                                   *)
(*   amount: kind finite | infinite | string | undefined | null           *)
(*           (JSON.parse reads 1e999 as Infinity)                          *)
(***************************************************************************)
Undefined == [type |-> "undefined", v |-> ""]
Str(s) == [type |-> "string", v |-> s]
Num(s) == [type |-> "number", v |-> s]

NoCode == [type |-> "undefined", chars |-> <<>>]
CodeStr(cs) == [type |-> "string", chars |-> cs]
CodeNum(cs) == [type |-> "number", chars |-> cs]

NoAmount == [kind |-> "undefined", n |-> 0]
Finite(n) == [kind |-> "finite", n |-> n]
Infinite == [kind |-> "infinite", n |-> 0]
AmountStr(n) == [kind |-> "string", n |-> n]
NullAmount == [kind |-> "null", n |-> 0]

TypeOfAmount(a) ==
    CASE a.kind \in {"finite", "infinite"} -> "number"
      [] a.kind = "string" -> "string"
      [] a.kind = "null" -> "object"
      [] OTHER -> "undefined"

\* amount < 0 (a string or undefined never gets here: typeof is tested first)
Negative(a) == a.kind = "finite" /\ a.n < 0

Upper == {"A", "B", "C", "D", "E", "F", "G", "H", "I", "J", "K", "L", "M",
          "N", "O", "P", "Q", "R", "S", "T", "U", "V", "W", "X", "Y", "Z"}
Digits == {"0", "1", "2", "3", "4", "5", "6", "7", "8", "9"}

MaxCodeLength == 25

\* /^[A-Z0-9]{1,25}$/.test(code)
MatchesPattern(cs) ==
    /\ Len(cs) >= 1
    /\ Len(cs) <= MaxCodeLength
    /\ \A i \in 1..Len(cs) : cs[i] \in Upper \cup Digits

\* !code
FalsyCode(c) ==
    \/ c.type = "undefined"
    \/ c.type = "string" /\ c.chars = <<>>
    \/ c.type = "number" /\ c.chars = <<"0">>

\* variant: the check without the regular expression
InvalidFormatNoPattern(c) ==
    \/ FalsyCode(c)
    \/ c.type # "string"
    \/ Len(c.chars) > MaxCodeLength
\* !code || typeof code !== 'string' || code.length > 25 || !regex.test(code)
InvalidFormat(c) ==
    \/ FalsyCode(c)
    \/ c.type # "string"
    \/ Len(c.chars) > MaxCodeLength
    \/ ~MatchesPattern(c.chars)

(***************************************************************************)
(* A plain object: its own properties as a sequence of [key, val] in the  *)
(* order Object.keys, Object.values and JSON.stringify enumerate them:    *)
(* array-index keys ("0", "7", "10", ...) in ascending numeric order      *)
(* first, then the other string keys in the order they were created.      *)
(***************************************************************************)
\* the largest array index, 2^32 - 2, as a numeral
MaxIndexNumeral == <<"4", "2", "9", "4", "9", "6", "7", "2", "9", "4">>

DigitVal(d) ==
    CASE d = "0" -> 0 [] d = "1" -> 1 [] d = "2" -> 2 [] d = "3" -> 3
      [] d = "4" -> 4 [] d = "5" -> 5 [] d = "6" -> 6 [] d = "7" -> 7
      [] d = "8" -> 8 [] OTHER -> 9

\* a < b for two numerals without leading zeros
NumeralLess(a, b) ==
    \/ Len(a) < Len(b)
    \/ /\ Len(a) = Len(b)
       /\ \E i \in 1..Len(a) :
            /\ DigitVal(a[i]) < DigitVal(b[i])
            /\ \A j \in 1..(i - 1) : a[j] = b[j]

IsArrayIndex(k) ==
    /\ Len(k) >= 1
    /\ \A i \in 1..Len(k) : k[i] \in Digits
    /\ Len(k) = 1 \/ k[1] # "0"
    /\ k = MaxIndexNumeral \/ NumeralLess(k, MaxIndexNumeral)

\* key a is enumerated before a key b that is created after it
EnumeratedBefore(a, b) ==
    IF IsArrayIndex(b) THEN IsArrayIndex(a) /\ NumeralLess(a, b) ELSE TRUE

HasOwn(obj, k) == \E i \in 1..Len(obj) : obj[i].key = k
IndexOf(obj, k) == CHOOSE i \in 1..Len(obj) : obj[i].key = k
OwnValue(obj, k) == obj[IndexOf(obj, k)].val

\* obj[k] = v
Assign(obj, k, v) ==
    IF HasOwn(obj, k)
    THEN [obj EXCEPT ![IndexOf(obj, k)].val = v]
    ELSE LET before == {i \in 1..Len(obj) : EnumeratedBefore(obj[i].key, k)}
             n == Cardinality(before)
         IN  SubSeq(obj, 1, n) \o <<[key |-> k, val |-> v]>>
                \o SubSeq(obj, n + 1, Len(obj))

\* Members of Object.prototype that every plain object inherits: obj[k] is
\* truthy for these keys although obj has no own property k.
ConstructorKey == <<"c", "o", "n", "s", "t", "r", "u", "c", "t", "o", "r">>
InheritedKeys == {ConstructorKey}

\* what obj[k] evaluates to: an own value, an inherited member, or undefined
Lookup(obj, k) ==
    IF HasOwn(obj, k) THEN "own"
    ELSE IF k \in InheritedKeys THEN "inherited"
    ELSE "undefined"

\* Object.values(obj)
Values(obj) == [i \in 1..Len(obj) |-> obj[i].val]

(***************************************************************************)
(* JSON.                                                                   *)
(* JSON.stringify writes the own properties in enumeration order, leaves  *)
(* strings and finite numbers as they are and writes a non-finite number  *)
(* as null.  JSON.parse creates the properties in document order.         *)
(***************************************************************************)
JsonNumber(a) == IF a.kind = "infinite" THEN NullAmount ELSE a

JsonCardPrice(p) ==
    IF p = None THEN None
    ELSE Some([amount |-> JsonNumber(The(p).amount), currency |-> The(p).currency])

\* JSON.stringify(giftCards, null, 2)
StringifyCards(obj) ==
    [i \in 1..Len(obj) |->
        [key |-> obj[i].key,
         val |-> [obj[i].val EXCEPT !.price = JsonCardPrice(@)]]]

\* JSON.stringify(currentPrice, null, 2): null is written as the text null
StringifyPrice(p) ==
    IF p = None THEN None
    ELSE Some([The(p) EXCEPT !.amount = JsonNumber(@)])

RECURSIVE ParseMembers(_, _)
ParseMembers(doc, obj) ==
    IF doc = <<>> THEN obj
    ELSE ParseMembers(Tail(doc), Assign(obj, Head(doc).key, Head(doc).val))

\* JSON.parse(cardsData)
ParseCards(doc) == ParseMembers(doc, <<>>)

\* JSON.parse(priceData)
ParsePrice(doc) == doc

(***************************************************************************)
(* Persistence.                                                            *)
(***************************************************************************)
\* loadData, cards: a missing file leaves the map empty
LoadCards(file) == IF file = None THEN <<>> ELSE ParseCards(The(file))

\* loadData, price: a missing file leaves the price null
LoadPrice(file) == IF file = None THEN None ELSE ParsePrice(The(file))

\* variant: one try block around both reads
LoadedPriceShared ==
    IF cardsFile = None \/ "cards" \in torn \/ "price" \in torn THEN None
    ELSE LoadPrice(priceFile)
\* loadData, second inner try: a file that cannot be parsed, like a missing
\* one, leaves the price null
LoadedPrice ==
    IF "price" \in torn THEN None ELSE LoadPrice(priceFile)

\* loadData, first inner try: a file that cannot be parsed, like a missing
\* one, leaves the map empty
LoadedCards ==
    IF "cards" \in torn THEN <<>> ELSE LoadCards(cardsFile)

\* saveData with both writes succeeding: each file is overwritten as a whole
SaveData(cards, price) ==
    /\ cardsFile' = Some(StringifyCards(cards))
    /\ priceFile' = Some(StringifyPrice(price))
    /\ flushed' = Some([cards |-> cards, price |-> price])

(***************************************************************************)
(* Requests and responses.                                                 *)
(***************************************************************************)
ADMIN_USERNAME == "admin"
ADMIN_PASSWORD == "admin123"

Statuses == {"pending", "accepted", "declined"}

EmptyBody ==
    [username |-> Undefined, password |-> Undefined, code |-> NoCode,
     status |-> Undefined, amount |-> NoAmount, currency |-> Undefined]

\* what a handler hands to res.status(...).json(...)
Reply(status) ==
    [status |-> status, card |-> None, price |-> None, cards |-> <<>>,
     stats |-> None]

NoRequest == [route |-> "none", body |-> EmptyBody]
NoReply == Reply(0)

\* variant: only the username is compared
AuthenticatedUserOnly(body) ==
    body.username = Str(ADMIN_USERNAME)
\* authenticate: username === ADMIN_USERNAME && password === ADMIN_PASSWORD
Authenticated(body) ==
    /\ body.username = Str(ADMIN_USERNAME)
    /\ body.password = Str(ADMIN_PASSWORD)

\* the 401 of authenticate
Unauthorized ==
    [cards |-> giftCards, price |-> currentPrice, ctor |-> objectCtor,
     save |-> FALSE, reply |-> Reply(401)]

\* a response that leaves the state alone
Answer(reply) ==
    [cards |-> giftCards, price |-> currentPrice, ctor |-> objectCtor,
     save |-> FALSE, reply |-> reply]

\* !currency || typeof currency !== 'string'
InvalidCurrency(c) ==
    \/ c.type = "undefined"
    \/ c.type = "string" /\ c.v = ""
    \/ c.type = "number" /\ c.v = "0"
    \/ c.type # "string"

\* typeof amount !== 'number' || amount < 0
InvalidAmount(a) == TypeOfAmount(a) # "number" \/ Negative(a)

\* variant: any string is taken as a status
InvalidStatusAny(s) == s.type # "string"
\* !['pending', 'accepted', 'declined'].includes(status)
InvalidStatus(s) == ~(s.type = "string" /\ s.v \in Statuses)

\* The handler took the request: its effect on memory, whether it ran
\* saveData, and its response.
Handle(route, body, out) ==
    /\ running
    /\ req = NoRequest
    /\ handled < MaxRequests
    /\ giftCards' = out.cards
    /\ currentPrice' = out.price
    /\ objectCtor' = out.ctor
    /\ IF out.save
       THEN SaveData(out.cards, out.price)
       ELSE UNCHANGED <<cardsFile, priceFile, flushed>>
    /\ req' = [route |-> route, body |-> body]
    /\ res' = out.reply
    /\ handled' = handled + 1
    /\ UNCHANGED <<running, now>>
    /\ UNCHANGED asyncVars

(***************************************************************************)
(* Handlers: each maps the request body to its outcome in the current     *)
(* state.                                                                  *)
(***************************************************************************)
\* variant: a new card starts accepted
NewCardAccepted(k) ==
    [code |-> k, status |-> "accepted", createdAt |-> now,
     updatedAt |-> None, price |-> None]
\* { code, status: 'pending', createdAt: new Date().toISOString() }
NewCard(k) ==
    [code |-> k, status |-> "pending", createdAt |-> now,
     updatedAt |-> None, price |-> None]

FreshCtor == [status |-> None, updatedAt |-> None, price |-> None]

\* app.post('/api/admin/login')
LoginOutcome(body) ==
    IF ~Authenticated(body) THEN Unauthorized ELSE Answer(Reply(200))

\* app.get('/api/price')
GetPriceOutcome == Answer([Reply(200) EXCEPT !.price = currentPrice])

\* variant: a price update also re-denominates the cards that have a price
AdminPriceOutcomeLinked(body) ==
    IF ~Authenticated(body) THEN Unauthorized
    ELSE IF InvalidAmount(body.amount) THEN Answer(Reply(400))
    ELSE IF InvalidCurrency(body.currency) THEN Answer(Reply(400))
    ELSE LET price == Some([amount |-> body.amount,
                            currency |-> body.currency.v,
                            updatedAt |-> now])
             relink(p) == IF p = None THEN None
                          ELSE Some([The(p) EXCEPT
                                       !.currency = body.currency.v])
         IN  [cards |-> [i \in 1..Len(giftCards) |->
                           [giftCards[i] EXCEPT !.val.price = relink(@)]],
              price |-> price, ctor |-> objectCtor, save |-> TRUE,
              reply |-> [Reply(200) EXCEPT !.price = price]]
\* app.post('/api/admin/price')
AdminPriceOutcome(body) ==
    IF ~Authenticated(body) THEN Unauthorized
    ELSE IF InvalidAmount(body.amount) THEN Answer(Reply(400))
    ELSE IF InvalidCurrency(body.currency) THEN Answer(Reply(400))
    ELSE LET price == Some([amount |-> body.amount,
                            currency |-> body.currency.v,
                            updatedAt |-> now])
         IN  [cards |-> giftCards, price |-> price, ctor |-> objectCtor,
              save |-> TRUE,
              reply |-> [Reply(200) EXCEPT !.price = price]]

\* variant: the record is created without the existence check
ValidateOutcomeNoCheck(body) ==
    IF InvalidFormat(body.code) THEN Answer(Reply(400))
    ELSE LET k == body.code.chars
             card == NewCard(k)
         IN  [cards |-> Assign(giftCards, k, card),
              price |-> currentPrice, ctor |-> objectCtor, save |-> TRUE,
              reply |-> [Reply(200) EXCEPT !.card = Some(card),
                                           !.price = currentPrice]]
\* app.post('/api/validate')
ValidateOutcome(body) ==
    IF InvalidFormat(body.code) THEN Answer(Reply(400))
    ELSE LET k == body.code.chars
             found == Lookup(giftCards, k)
         IN  IF found = "undefined"
             THEN LET card == NewCard(k)
                  IN  [cards |-> Assign(giftCards, k, card),
                       price |-> currentPrice, ctor |-> objectCtor,
                       save |-> TRUE,
                       reply |-> [Reply(200) EXCEPT !.card = Some(card),
                                                    !.price = currentPrice]]
             ELSE Answer([Reply(200) EXCEPT
                            !.card = IF found = "own"
                                     THEN Some(OwnValue(giftCards, k))
                                     ELSE None,
                            !.price = currentPrice])

\* app.post('/api/admin/cards')
CardsOutcome(body) ==
    IF ~Authenticated(body) THEN Unauthorized
    ELSE Answer([Reply(200) EXCEPT !.cards = Values(giftCards)])

\* variant: the update stamps createdAt as well
UpdatedTouchCreated(k, card) ==
    [cards |-> Assign(giftCards, k, [card EXCEPT !.createdAt = now]),
     price |-> currentPrice, ctor |-> objectCtor, save |-> TRUE,
     reply |-> [Reply(200) EXCEPT !.card = Some(card)]]
\* variant: the update drops the card's price
UpdatedDropPrice(k, card) ==
    [cards |-> Assign(giftCards, k, [card EXCEPT !.price = None]),
     price |-> currentPrice, ctor |-> objectCtor, save |-> TRUE,
     reply |-> [Reply(200) EXCEPT !.card = Some(card)]]
\* after giftCards[code].<fields> = ... on an own card: saveData, and the
\* card in the response
Updated(k, card) ==
    [cards |-> Assign(giftCards, k, card), price |-> currentPrice,
     ctor |-> objectCtor, save |-> TRUE,
     reply |-> [Reply(200) EXCEPT !.card = Some(card)]]

\* variant: the write creates an own record under the inherited name
WroteInheritedAsOwn(ctor) ==
    [cards |-> Assign(giftCards, ConstructorKey,
                      [code |-> ConstructorKey, status |-> "pending",
                       createdAt |-> now, updatedAt |-> None,
                       price |-> None]),
     price |-> currentPrice, ctor |-> ctor, save |-> TRUE,
     reply |-> Reply(200)]
\* the same statements when giftCards[code] is the inherited member: the
\* fields are written on it, the map keeps its own properties, and the
\* function in the response is left out by JSON
WroteInherited(ctor) ==
    [cards |-> giftCards, price |-> currentPrice, ctor |-> ctor,
     save |-> TRUE, reply |-> Reply(200)]

\* app.post('/api/admin/cards/status')
SetStatusOutcome(body) ==
    IF ~Authenticated(body) THEN Unauthorized
    ELSE LET k == body.code.chars
         IN  IF FalsyCode(body.code) \/ Lookup(giftCards, k) = "undefined"
             THEN Answer(Reply(404))
             ELSE IF InvalidStatus(body.status) THEN Answer(Reply(400))
             ELSE IF HasOwn(giftCards, k)
             THEN Updated(k, [OwnValue(giftCards, k) EXCEPT
                                !.status = body.status.v,
                                !.updatedAt = Some(now)])
             ELSE WroteInherited([objectCtor EXCEPT
                                    !.status = Some(body.status.v),
                                    !.updatedAt = Some(now)])

\* variant: the default currency whatever the global price
CardCurrencyDefault == "USD"
\* const currency = currentPrice ? currentPrice.currency : 'USD'
CardCurrency ==
    IF currentPrice # None THEN The(currentPrice).currency ELSE "USD"

\* app.post('/api/admin/cards/price')
SetPriceOutcome(body) ==
    IF ~Authenticated(body) THEN Unauthorized
    ELSE LET k == body.code.chars
             price == Some([amount |-> body.amount, currency |-> CardCurrency])
         IN  IF FalsyCode(body.code) \/ Lookup(giftCards, k) = "undefined"
             THEN Answer(Reply(404))
             ELSE IF InvalidAmount(body.amount) THEN Answer(Reply(400))
             ELSE IF HasOwn(giftCards, k)
             THEN Updated(k, [OwnValue(giftCards, k) EXCEPT
                                !.price = price,
                                !.updatedAt = Some(now)])
             ELSE WroteInherited([objectCtor EXCEPT
                                    !.price = price,
                                    !.updatedAt = Some(now)])

\* cards.filter(card => card.status === s).length
CountStatus(cards, s) ==
    Cardinality({i \in 1..Len(cards) : cards[i].status = s})

\* the stats object of app.post('/api/admin/stats')
StatsOf(cards) ==
    [total |-> Len(cards),
     accepted |-> CountStatus(cards, "accepted"),
     declined |-> CountStatus(cards, "declined"),
     pending |-> CountStatus(cards, "pending")]

\* variant: stats runs saveData
StatsOutcomeSaving(body) ==
    IF ~Authenticated(body) THEN Unauthorized
    ELSE [Answer([Reply(200) EXCEPT
                    !.stats = Some(StatsOf(Values(giftCards)))])
            EXCEPT !.save = TRUE]
\* app.post('/api/admin/stats')
StatsOutcome(body) ==
    IF ~Authenticated(body) THEN Unauthorized
    ELSE Answer([Reply(200) EXCEPT !.stats = Some(StatsOf(Values(giftCards)))])

(***************************************************************************)
(* The requests the model sends.                                           *)
(***************************************************************************)
CodeA1 == <<"A", "1">>
Code7 == <<"7">>
LongCode == [i \in 1..(MaxCodeLength + 1) |-> "A"]

\* codes the pattern accepts
ValidCodes == {CodeStr(CodeA1), CodeStr(Code7)}

\* missing, empty, lowercase, a symbol, too long, a number, a lowercase word
BadCodes ==
    {NoCode, CodeStr(<<>>), CodeStr(<<"a", "1">>), CodeStr(<<"A", "-", "1">>),
     CodeStr(LongCode), CodeNum(Code7), CodeStr(ConstructorKey)}

\* codes sent to the admin routes
AdminCodes == ValidCodes \cup {NoCode, CodeStr(ConstructorKey)}

StatusInputs ==
    {Str("pending"), Str("accepted"), Str("declined"), Str("expired")}

\* 5, 1e999, -1, "5"
AmountInputs == {Finite(5), Infinite, Finite(-1), AmountStr(5)}

CurrencyInputs == {Str("EUR"), Str(""), Num("840")}

Credentials ==
    {[username |-> Str(ADMIN_USERNAME), password |-> Str(ADMIN_PASSWORD)],
     [username |-> Str(ADMIN_USERNAME), password |-> Str("admin")],
     [username |-> Undefined, password |-> Undefined]}

WithCredentials(c) ==
    [EmptyBody EXCEPT !.username = c.username, !.password = c.password]

(***************************************************************************)
(* Actions.                                                                *)
(***************************************************************************)
Login ==
    \E c \in Credentials :
        LET body == WithCredentials(c)
        IN  Handle("login", body, LoginOutcome(body))

GetPrice == Handle("getPrice", EmptyBody, GetPriceOutcome)

AdminPrice ==
    \E c \in Credentials, a \in AmountInputs, cur \in CurrencyInputs :
        LET body == [WithCredentials(c) EXCEPT !.amount = a, !.currency = cur]
        IN  Handle("price", body, AdminPriceOutcome(body))

Validate ==
    \E code \in ValidCodes \cup BadCodes :
        LET body == [EmptyBody EXCEPT !.code = code]
        IN  Handle("validate", body, ValidateOutcome(body))

Cards ==
    \E c \in Credentials :
        LET body == WithCredentials(c)
        IN  Handle("cards", body, CardsOutcome(body))

SetStatus ==
    \E c \in Credentials, code \in AdminCodes, st \in StatusInputs :
        LET body == [WithCredentials(c) EXCEPT !.code = code, !.status = st]
        IN  Handle("status", body, SetStatusOutcome(body))

SetPrice ==
    \E c \in Credentials, code \in AdminCodes, a \in AmountInputs :
        LET body == [WithCredentials(c) EXCEPT !.code = code, !.amount = a]
        IN  Handle("cardPrice", body, SetPriceOutcome(body))

Stats ==
    \E c \in Credentials :
        LET body == WithCredentials(c)
        IN  Handle("stats", body, StatsOutcome(body))

(***************************************************************************)
(* Handlers in flight.  A handler that calls saveData is suspended at each *)
(* of its two awaits; everything between two awaits runs without           *)
(* interruption.                                                           *)
(***************************************************************************)
Slots == 1..MaxInFlight

\* phase: "idle", "cards" (the write of cards.json is in flight), "price"
\* (the write of price.json is in flight), "done" (the response is out).
\* cards, price: what JSON.stringify was given for each write.
\* failed: a write of this saveData was rejected.
\* raced: the write in flight overlaps another write of the same file.
\* alone: no other saveData has been in flight since this one began.
\* base: what loadData would have read when this handler began, for a
\* handler that began alone.
IdleTask ==
    [phase |-> "idle", route |-> "none", body |-> EmptyBody, cards |-> <<>>,
     price |-> None, failed |-> FALSE, raced |-> FALSE, alone |-> FALSE,
     base |-> [cards |-> <<>>, price |-> None], reply |-> NoReply]

InFlight(t) == t.phase \in {"cards", "price"}

\* the response has gone out: the request is over
Sent ==
    /\ req # NoRequest
    /\ req' = NoRequest
    /\ res' = NoReply
    /\ UNCHANGED <<running, giftCards, currentPrice, objectCtor, cardsFile,
                   priceFile, now, flushed, handled>>
    /\ UNCHANGED asyncVars

\* startServer: ensureDataDirectory, loadData, listen
Start ==
    /\ ~running
    /\ running' = TRUE
    /\ giftCards' = LoadedCards
    /\ currentPrice' = LoadedPrice
    /\ dead' = None
    /\ UNCHANGED <<objectCtor, cardsFile, priceFile, now, req, res, flushed,
                   handled, tasks, torn>>

\* the process is killed or crashes: memory is gone, a new process starts
\* from `let giftCards = {}` and `let currentPrice = null`
Kill ==
    /\ running
    /\ running' = FALSE
    /\ giftCards' = <<>>
    /\ currentPrice' = None
    /\ objectCtor' = FreshCtor
    /\ req' = NoRequest
    /\ res' = NoReply
    /\ UNCHANGED <<cardsFile, priceFile, now, flushed, handled>>
    /\ UNCHANGED asyncVars

\* SIGINT or SIGTERM: saveData, then process.exit(0)
Signal ==
    /\ running
    /\ SaveData(giftCards, currentPrice)
    /\ running' = FALSE
    /\ giftCards' = <<>>
    /\ currentPrice' = None
    /\ objectCtor' = FreshCtor
    /\ req' = NoRequest
    /\ res' = NoReply
    /\ UNCHANGED <<now, handled>>
    /\ UNCHANGED asyncVars

\* time passes
Tick ==
    /\ now < MaxClock
    /\ now' = now + 1
    /\ UNCHANGED <<running, giftCards, currentPrice, objectCtor, cardsFile,
                   priceFile, req, res, flushed, handled>>
    /\ UNCHANGED asyncVars

Init ==
    /\ running = FALSE
    /\ giftCards = <<>>
    /\ currentPrice = None
    /\ objectCtor = FreshCtor
    /\ cardsFile = None
    /\ priceFile = None
    /\ now = 0
    /\ req = NoRequest
    /\ res = NoReply
    /\ flushed = None
    /\ handled = 0
    /\ tasks = [s \in Slots |-> IdleTask]
    /\ torn = {}
    /\ dead = None

Next ==
    \/ Login
    \/ GetPrice
    \/ AdminPrice
    \/ Validate
    \/ Cards
    \/ SetStatus
    \/ SetPrice
    \/ Stats
    \/ Sent
    \/ Start
    \/ Kill
    \/ Signal
    \/ Tick

Spec == Init /\ [][Next]_vars

(***************************************************************************)
(* The handlers step by step: a step is what runs between two awaits, or   *)
(* the completion of one fs.writeFile.                                     *)
(***************************************************************************)
\* the administrator of the step-by-step runs
Admin == WithCredentials([username |-> Str(ADMIN_USERNAME),
                          password |-> Str(ADMIN_PASSWORD)])

\* the slot a new handler is given
FreeSlot(s) ==
    /\ tasks[s].phase = "idle"
    /\ \A o \in Slots : o < s => tasks[o].phase # "idle"

\* a response is out and has not been looked at yet
Answered == \E s \in Slots : tasks[s].route # "signal" /\ tasks[s].phase = "done"

\* the signal handler has finished its saveData: process.exit(0) is next
Exiting == \E s \in Slots : tasks[s].route = "signal" /\ tasks[s].phase = "done"

\* the handler of slot s has called saveData: JSON.stringify(giftCards) is
\* taken now and the write of cards.json is issued
Issued(s, route, body, cards) ==
    LET racing == {o \in Slots \ {s} : tasks[o].phase = "cards"}
        busy == {o \in Slots \ {s} : InFlight(tasks[o])}
    IN  [o \in Slots |->
           IF o = s
           THEN [IdleTask EXCEPT !.phase = "cards", !.route = route,
                                 !.body = body, !.cards = cards,
                                 !.raced = racing # {},
                                 !.alone = busy = {},
                                 !.base = IF busy = {}
                                          THEN [cards |-> LoadedCards,
                                                price |-> LoadedPrice]
                                          ELSE IdleTask.base]
           ELSE IF o \in busy
           THEN [tasks[o] EXCEPT !.alone = FALSE,
                                 !.raced = @ \/ o \in racing]
           ELSE tasks[o]]

\* a request arrives: the handler runs up to its first await, or to its
\* response when it does not call saveData
Arrive(route, body, out) ==
    \E s \in Slots :
        /\ running
        /\ ~Exiting
        /\ ~Answered
        /\ FreeSlot(s)
        /\ handled < MaxArrivals
        /\ giftCards' = out.cards
        /\ currentPrice' = out.price
        /\ objectCtor' = out.ctor
        /\ tasks' = IF out.save
                    THEN Issued(s, route, body, out.cards)
                    ELSE [tasks EXCEPT ![s] =
                            [IdleTask EXCEPT !.phase = "done",
                                             !.route = route,
                                             !.body = body,
                                             !.reply = out.reply]]
        /\ handled' = handled + 1
        /\ UNCHANGED <<running, cardsFile, priceFile, now, req, res, flushed,
                       torn, dead>>

\* the response of a handler that has awaited saveData: the card and the
\* price are read from memory after the await
ReplyNow(route, body) ==
    LET k == body.code.chars
        card == IF HasOwn(giftCards, k)
                THEN Some(OwnValue(giftCards, k)) ELSE None
    IN  IF route = "signal" THEN NoReply
        ELSE IF route = "price"
        THEN [Reply(200) EXCEPT !.price = currentPrice]
        ELSE IF route = "validate"
        THEN [Reply(200) EXCEPT !.card = card, !.price = currentPrice]
        ELSE [Reply(200) EXCEPT !.card = card]

ValidateArrives ==
    \E code \in ValidCodes :
        LET body == [EmptyBody EXCEPT !.code = code]
        IN  Arrive("validate", body, ValidateOutcome(body))

AdminPriceArrives ==
    LET body == [Admin EXCEPT !.amount = Finite(5), !.currency = Str("EUR")]
    IN  Arrive("price", body, AdminPriceOutcome(body))

SetStatusArrives ==
    LET body == [Admin EXCEPT !.code = CodeStr(CodeA1),
                              !.status = Str("accepted")]
    IN  Arrive("status", body, SetStatusOutcome(body))

SetPriceArrives ==
    LET body == [Admin EXCEPT !.code = CodeStr(CodeA1), !.amount = Finite(5)]
    IN  Arrive("cardPrice", body, SetPriceOutcome(body))

\* SIGINT or SIGTERM: the signal handler calls saveData
SignalArrives ==
    \E s \in Slots :
        /\ running
        /\ ~Exiting
        /\ ~Answered
        /\ FreeSlot(s)
        /\ tasks' = Issued(s, "signal", EmptyBody, giftCards)
        /\ UNCHANGED <<running, giftCards, currentPrice, objectCtor,
                       cardsFile, priceFile, now, req, res, flushed, handled,
                       torn, dead>>

\* variant: the text is taken from memory when the write completes
WrittenCardsLive(s) == StringifyCards(giftCards)
\* what the completed fs.writeFile(CARDS_FILE, ...) of slot s has written
WrittenCards(s) == StringifyCards(tasks[s].cards)

\* saveData has returned: the handler answers, the signal handler is about
\* to exit
Returned(s, failed) ==
    [tasks EXCEPT ![s] = [@ EXCEPT !.phase = "done", !.failed = failed,
                                   !.reply = ReplyNow(tasks[s].route,
                                                      tasks[s].body)]]

\* variant: saveData returns after the write of cards.json
AwaitedCardsOnly(s) == Returned(s, FALSE)
\* the first await of saveData returns: JSON.stringify(currentPrice) is
\* taken now and the write of price.json is issued
AwaitedCards(s) ==
    LET racing == {o \in Slots \ {s} : tasks[o].phase = "price"}
    IN  [o \in Slots |->
           IF o = s
           THEN [tasks[s] EXCEPT !.phase = "price", !.price = currentPrice,
                                 !.raced = racing # {}]
           ELSE IF o \in racing THEN [tasks[o] EXCEPT !.raced = TRUE]
           ELSE tasks[o]]

\* a write that overlaps another write of the same file can leave a mix of
\* the two texts; any other completed write leaves its own text
Landed(s, file, mixed) ==
    /\ mixed => tasks[s].raced
    /\ torn' = IF mixed THEN torn \cup {file} ELSE torn \ {file}

\* the write of cards.json completes
CardsWritten(s) ==
    /\ tasks[s].phase = "cards"
    /\ \E mixed \in BOOLEAN : Landed(s, "cards", mixed)
    /\ cardsFile' = Some(WrittenCards(s))
    /\ tasks' = AwaitedCards(s)
    /\ UNCHANGED <<running, giftCards, currentPrice, objectCtor, priceFile,
                   now, req, res, flushed, handled, dead>>

\* the write of price.json completes and saveData returns
PriceWritten(s) ==
    /\ tasks[s].phase = "price"
    /\ \E mixed \in BOOLEAN : Landed(s, "price", mixed)
    /\ priceFile' = Some(StringifyPrice(tasks[s].price))
    /\ flushed' = Some([cards |-> tasks[s].cards, price |-> tasks[s].price])
    /\ tasks' = Returned(s, FALSE)
    /\ UNCHANGED <<running, giftCards, currentPrice, objectCtor, cardsFile,
                   now, req, res, handled, dead>>

\* the write in flight is rejected (disk full, no permission, ...), having
\* damaged the file or not: the catch of saveData logs the error, the
\* second write, if this was the first, is skipped, and saveData returns
WriteRejected(s) ==
    /\ InFlight(tasks[s])
    /\ \E damaged \in BOOLEAN :
          torn' = IF damaged THEN torn \cup {tasks[s].phase} ELSE torn
    /\ tasks' = Returned(s, TRUE)
    /\ UNCHANGED <<running, giftCards, currentPrice, objectCtor, cardsFile,
                   priceFile, now, req, res, flushed, handled, dead>>

\* the response has gone out: the request is over
Finish(s) ==
    /\ tasks[s].phase = "done"
    /\ tasks[s].route # "signal"
    /\ tasks' = [tasks EXCEPT ![s] = IdleTask]
    /\ UNCHANGED <<running, giftCards, currentPrice, objectCtor, cardsFile,
                   priceFile, now, req, res, flushed, handled, torn, dead>>

\* the files with a write in flight
Writing == {tasks[s].phase : s \in {o \in Slots : InFlight(tasks[o])}}

\* variant: the writes in flight complete before the process ends
HaltAfterWrites(cut, image) ==
    /\ running' = FALSE
    /\ giftCards' = <<>>
    /\ currentPrice' = None
    /\ objectCtor' = FreshCtor
    /\ tasks' = [s \in Slots |-> IdleTask]
    /\ torn' = torn \cup cut
    /\ dead' = image
    /\ cardsFile' = IF \E s \in Slots : tasks[s].phase = "cards"
                    THEN Some(StringifyCards(giftCards)) ELSE cardsFile
    /\ UNCHANGED <<priceFile, now, req, res, flushed, handled>>
\* the process ends: memory and the suspended handlers are gone, and each
\* write in flight has either not touched its file or left it cut short
Halt(cut, image) ==
    /\ running' = FALSE
    /\ giftCards' = <<>>
    /\ currentPrice' = None
    /\ objectCtor' = FreshCtor
    /\ tasks' = [s \in Slots |-> IdleTask]
    /\ torn' = torn \cup cut
    /\ dead' = image
    /\ UNCHANGED <<cardsFile, priceFile, now, req, res, flushed, handled>>

\* what a crash interrupts, kept when it is one request that has been
\* alone in flight: memory, the await it is suspended at, and what the files
\* held when it began
Image ==
    LET lone == {s \in Slots : /\ InFlight(tasks[s])
                               /\ tasks[s].alone
                               /\ tasks[s].route # "signal"}
    IN  IF lone = {} THEN None
        ELSE LET t == tasks[CHOOSE s \in lone : TRUE]
             IN  Some([cards |-> giftCards, price |-> currentPrice,
                       phase |-> t.phase, base |-> t.base])

\* process.exit(0) at the end of the signal handler
Exit ==
    /\ Exiting
    /\ \E cut \in SUBSET Writing : Halt(cut, None)

\* the process is killed or crashes
Crash ==
    /\ running
    /\ ~Answered
    /\ \E cut \in SUBSET Writing : Halt(cut, Image)

\* time passes
TickAsync ==
    /\ ~Answered
    /\ Tick

NextAsync ==
    \/ ValidateArrives
    \/ AdminPriceArrives
    \/ SetStatusArrives
    \/ SetPriceArrives
    \/ SignalArrives
    \/ \E s \in Slots : CardsWritten(s)
    \/ \E s \in Slots : PriceWritten(s)
    \/ \E s \in Slots : WriteRejected(s)
    \/ \E s \in Slots : Finish(s)
    \/ Exit
    \/ Crash
    \/ Start
    \/ TickAsync

SpecAsync == Init /\ [][NextAsync]_vars

(***************************************************************************)
(* Properties.                                                             *)
(***************************************************************************)
\* this step takes a request of the given route
Takes(route) == req = NoRequest /\ req'.route = route

\* the request of this step carries the configured username and password
GoodCredentials(body) ==
    body.username = Str("admin") /\ body.password = Str("admin123")

AdminRoutes == {"login", "price", "cards", "status", "cardPrice", "stats"}

\* the own records of a card map other than the one under key k
Others(obj, k) == {obj[i] : i \in {j \in 1..Len(obj) : obj[j].key # k}}

(* C1: a validate of a well-formed code that has no record creates exactly
   one record for it, with status pending, and returns it; a validate of a
   code that has a record, whatever an administrator has made of it, returns
   that record and changes neither the card map nor the global price. *)
C1_ValidateCreatesOnceThenIdempotent ==
    [][Takes("validate") /\ req'.body.code \in ValidCodes =>
        LET k == req'.body.code.chars
        IN  /\ res'.status = 200
            /\ IF ~HasOwn(giftCards, k)
               THEN /\ Len(giftCards') = Len(giftCards) + 1
                    /\ Cardinality({i \in 1..Len(giftCards') :
                                      giftCards'[i].key = k}) = 1
                    /\ OwnValue(giftCards', k).code = k
                    /\ OwnValue(giftCards', k).status = "pending"
                    /\ Others(giftCards', k) = Others(giftCards, k)
                    /\ res'.card = Some(OwnValue(giftCards', k))
                    /\ currentPrice' = currentPrice
               ELSE /\ giftCards' = giftCards
                    /\ currentPrice' = currentPrice
                    /\ res'.card = Some(OwnValue(giftCards, k))]_vars

\* a validate answered with a record an administrator has accepted since
C1_Witness ==
    /\ req.route = "validate"
    /\ res.status = 200
    /\ res.card # None
    /\ The(res.card).status = "accepted"
    /\ HasOwn(giftCards, req.body.code.chars)

(* C2: a validate whose code violates the pattern (missing, not a string,
   empty, longer than 25 characters, a character outside A-Z and 0-9)
   answers 400 and leaves the card map, the global price and both files
   unchanged, and runs no saveData. *)
C2_BadCodeRejected ==
    [][Takes("validate") /\ req'.body.code \in BadCodes =>
        /\ res'.status = 400
        /\ UNCHANGED <<giftCards, currentPrice, cardsFile, priceFile,
                       flushed>>]_vars

\* a 26-character code rejected while the map holds a record
C2_Witness ==
    /\ req.route = "validate"
    /\ req.body.code = CodeStr(LongCode)
    /\ res.status = 400
    /\ giftCards # <<>>

(* C3: an authenticated setStatus or setPrice for a code that has no record
   answers 404 and leaves the card map, the global price and both files
   unchanged. *)
C3_UnknownCodeNotFound ==
    [][/\ Takes("status") \/ Takes("cardPrice")
       /\ GoodCredentials(req'.body)
       /\ ~HasOwn(giftCards, req'.body.code.chars)
       => /\ res'.status = 404
          /\ UNCHANGED <<giftCards, currentPrice, cardsFile, priceFile>>]_vars

(* C4: for a code that has a record, an authenticated setStatus succeeds
   exactly when the status is pending, accepted or declined; otherwise it
   answers 400 and leaves every record and the global price unchanged. *)
C4_StatusEnumOnly ==
    [][/\ Takes("status")
       /\ GoodCredentials(req'.body)
       /\ HasOwn(giftCards, req'.body.code.chars)
       => LET k == req'.body.code.chars
              st == req'.body.status
          IN  IF st \in {Str("pending"), Str("accepted"), Str("declined")}
              THEN /\ res'.status = 200
                   /\ OwnValue(giftCards', k).status = st.v
              ELSE /\ res'.status = 400
                   /\ giftCards' = giftCards
                   /\ currentPrice' = currentPrice]_vars

\* an unknown status refused for a registered card
C4_Witness ==
    /\ req.route = "status"
    /\ req.body.status = Str("expired")
    /\ GoodCredentials(req.body)
    /\ HasOwn(giftCards, req.body.code.chars)
    /\ OwnValue(giftCards, req.body.code.chars).status = "accepted"
    /\ res.status = 400

(* C5: a request to an admin route is answered 401, and changes no card,
   no price and no file, unless its body carries exactly the configured
   username and password; with them it is never answered 401.  This holds
   of every request, whatever was answered before. *)
C5_CredentialsEveryRequest ==
    [][(\E r \in AdminRoutes : Takes(r)) =>
        IF GoodCredentials(req'.body)
        THEN res'.status # 401
        ELSE /\ res'.status = 401
             /\ UNCHANGED <<giftCards, currentPrice, objectCtor, cardsFile,
                            priceFile, flushed>>]_vars

\* a valid status update of a registered card refused for its password
C5_Witness ==
    /\ req.route = "status"
    /\ req.body.username = Str("admin")
    /\ req.body.password # Str("admin123")
    /\ req.body.status = Str("accepted")
    /\ HasOwn(giftCards, req.body.code.chars)
    /\ res.status = 401

(* C6: a successful setPrice on a registered card sets the card's price to
   the submitted amount and the currency of the global price at the moment
   of the call, or USD when there is no global price. *)
C6_CardPriceCurrency ==
    [][/\ Takes("cardPrice")
       /\ HasOwn(giftCards, req'.body.code.chars)
       /\ res'.status = 200
       => LET k == req'.body.code.chars
          IN  OwnValue(giftCards', k).price =
                Some([amount |-> req'.body.amount,
                      currency |-> IF currentPrice = None THEN "USD"
                                   ELSE The(currentPrice).currency])]_vars

\* a card priced in the global currency with an amount of its own
C6_Witness ==
    /\ req.route = "cardPrice"
    /\ res.status = 200
    /\ res.card # None
    /\ currentPrice # None
    /\ The(The(res.card).price).currency = "EUR"
    /\ The(The(res.card).price).amount # The(currentPrice).amount

(* C7: in every reachable state the stats counts satisfy
   total = accepted + declined + pending, and so does every stats response. *)
C7_StatsAddUp ==
    LET s == StatsOf(Values(giftCards))
    IN  /\ s.total = s.accepted + s.declined + s.pending
        /\ res.stats # None =>
             The(res.stats).total = The(res.stats).accepted
                + The(res.stats).declined + The(res.stats).pending

\* a stats response counting an accepted card
C7_Witness ==
    /\ req.route = "stats"
    /\ res.stats # None
    /\ The(res.stats).total = 1
    /\ The(res.stats).accepted = 1

(* C8: when the process starts after a saveData has completed, loadData
   yields the card map and the global price that memory held when that
   saveData ran. *)
C8_ReloadIdentical ==
    [][~running /\ running' /\ flushed # None =>
        /\ giftCards' = The(flushed).cards
        /\ currentPrice' = The(flushed).price]_vars

\* the key, code and createdAt of every record of a card map
Created(obj) ==
    {<<obj[i].key, obj[i].val.code, obj[i].val.createdAt>> :
        i \in 1..Len(obj)}

Keys(obj) == {obj[i].key : i \in 1..Len(obj)}

\* the records of a that are still in b have kept their code and createdAt
KeepsCreated(a, b) ==
    \A t \in Created(a) : t[1] \in Keys(b) => t \in Created(b)

C9_RecordsWellFormed ==
    \A i \in 1..Len(giftCards) :
        /\ giftCards[i].key = giftCards[i].val.code
        /\ giftCards[i].val.status \in {"pending", "accepted", "declined"}
        /\ \A j \in 1..Len(giftCards) :
             giftCards[j].key = giftCards[i].key => j = i

C9_CreatedKept ==
    /\ KeepsCreated(giftCards, giftCards')
    /\ cardsFile # None /\ cardsFile' # None =>
         KeepsCreated(The(cardsFile), The(cardsFile'))
    /\ ~running /\ running' /\ cardsFile # None =>
         Created(giftCards') = Created(The(cardsFile))
    /\ running /\ cardsFile' # cardsFile =>
         Created(The(cardsFile')) = Created(giftCards')

(* C9: in every reachable state every record is stored under a key equal
   to its code, no two records share a key, and its status is pending,
   accepted or declined; no step changes the code or the createdAt of a
   record, in memory or in cards.json, and a start loads the records with
   the code and createdAt the file holds. *)
C9_CodeAndCreatedAtImmutable ==
    [](C9_RecordsWellFormed) /\ [][C9_CreatedKept]_vars

\* a record declined at a later time than it was created
C9_Witness ==
    /\ running
    /\ giftCards # <<>>
    /\ giftCards[1].val.createdAt = 0
    /\ giftCards[1].val.updatedAt = Some(1)
    /\ giftCards[1].val.status = "declined"
    /\ req = NoRequest

C10_PriceWellFormed ==
    currentPrice # None =>
        /\ TypeOfAmount(The(currentPrice).amount) = "number"
        /\ ~Negative(The(currentPrice).amount)
        /\ The(currentPrice).currency # ""

C10_PriceStep ==
    /\ Takes("price") /\ GoodCredentials(req'.body) =>
         IF /\ req'.body.amount \in {Finite(5), Infinite}
            /\ req'.body.currency = Str("EUR")
         THEN /\ res'.status = 200
              /\ currentPrice' = Some([amount |-> req'.body.amount,
                                       currency |-> req'.body.currency.v,
                                       updatedAt |-> now])
         ELSE /\ res'.status = 400
              /\ currentPrice' = currentPrice
    /\ Takes("getPrice") /\ flushed # None =>
         res'.price = The(flushed).price

(* C10: an authenticated global price update answers 400 and leaves the
   price unchanged unless the amount is a non-negative number and the
   currency a non-empty string, and otherwise replaces the record by
   {amount, currency, fresh updatedAt}; in every reachable state the global
   price is null or has a non-negative number as amount and a non-empty
   currency, and GET /api/price returns the most recently set record. *)
C10_GlobalPrice ==
    [](C10_PriceWellFormed) /\ [][C10_PriceStep]_vars

(* C16: a card's price is not linked to the global price: a global price
   update leaves every card record unchanged, and while the process runs
   the price of a card changes only in a setPrice on that card. *)
C16_CardPriceNotLinked ==
    [][/\ Takes("price") => giftCards' = giftCards
       /\ running /\ running' =>
            \A i \in 1..Len(giftCards) :
                LET k == giftCards[i].key
                IN  /\ HasOwn(giftCards', k)
                    /\ OwnValue(giftCards', k).price # giftCards[i].val.price
                    => /\ Takes("cardPrice")
                       /\ req'.body.code.chars = k]_vars

\* a card priced in USD while the global price has since been set in EUR
C16_Witness ==
    /\ req.route = "price"
    /\ res.status = 200
    /\ currentPrice # None
    /\ The(currentPrice).currency = "EUR"
    /\ \E i \in 1..Len(giftCards) :
         /\ giftCards[i].val.price # None
         /\ The(giftCards[i].val.price).currency = "USD"

ReadRoutes == {"stats", "cards", "getPrice", "login"}

(* C17: stats, getAll, GET /api/price and admin login are pure reads: they
   change neither the card map nor the global price, write neither file
   and run no saveData. *)
C17_ReadsArePure ==
    [][(\E r \in ReadRoutes : Takes(r)) =>
        UNCHANGED <<giftCards, currentPrice, objectCtor, cardsFile,
                    priceFile, flushed>>]_vars

\* the list of two cards returned to the administrator
C17_Witness ==
    /\ req.route = "cards"
    /\ res.status = 200
    /\ Len(res.cards) = 2

(* C19: a successful setStatus changes only the status and updatedAt of
   the addressed card and keeps its price; a successful setPrice changes
   only its price and updatedAt and keeps its status; both leave every
   other card and the global price unchanged. *)
C19_UpdateFrame ==
    [][(Takes("status") \/ Takes("cardPrice")) /\ res'.status = 200 =>
        LET k == req'.body.code.chars
        IN  /\ currentPrice' = currentPrice
            /\ Len(giftCards') = Len(giftCards)
            /\ Others(giftCards', k) = Others(giftCards, k)
            /\ HasOwn(giftCards, k) =>
                 LET old == OwnValue(giftCards, k)
                     new == OwnValue(giftCards', k)
                 IN  /\ HasOwn(giftCards', k)
                     /\ new.code = old.code
                     /\ new.createdAt = old.createdAt
                     /\ new.updatedAt = Some(now)
                     /\ IF req'.route = "status"
                        THEN /\ new.price = old.price
                             /\ new.status = req'.body.status.v
                        ELSE /\ new.status = old.status
                             /\ new.price # None
                             /\ The(new.price).amount = req'.body.amount]_vars

\* a status update of a card that has a price
C19_Witness ==
    /\ req.route = "status"
    /\ res.status = 200
    /\ res.card # None
    /\ The(res.card).price # None
    /\ The(res.card).status = "declined"

(* C20: while the process runs the set of registered codes only grows,
   and only by the code of a successful validate. *)
C20_CodesOnlyGrowByValidate ==
    [][running /\ running' =>
        /\ Keys(giftCards) \subseteq Keys(giftCards')
        /\ Keys(giftCards') # Keys(giftCards) =>
             /\ Takes("validate")
             /\ res'.status = 200
             /\ Keys(giftCards') =
                  Keys(giftCards) \cup {req'.body.code.chars}]_vars

\* two registered codes after an administrator's update
C20_Witness ==
    /\ Len(giftCards) = 2
    /\ req.route = "status"
    /\ res.status = 200

(* C11: a mutating request whose flush had a file write rejected is
   answered with 500, never with success. *)
C11_WriteFailureSurfaced ==
    \A s \in Slots :
        /\ tasks[s].phase = "done"
        /\ tasks[s].route # "signal"
        /\ tasks[s].failed
        => tasks[s].reply.status = 500

(* C12: a mutating request that is alone in flight and has no write
   rejected is not answered before both writes have completed, and when it
   is answered with success cards.json and price.json hold the card map
   and the price that are in memory. *)
C12_DiskMirrorsMemoryAtResponse ==
    \A s \in Slots :
        /\ tasks[s].alone
        /\ ~tasks[s].failed
        /\ tasks[s].route \notin {"none", "signal"}
        => /\ InFlight(tasks[s]) => tasks[s].reply = NoReply
           /\ tasks[s].phase = "done" =>
                /\ tasks[s].reply.status = 200
                /\ torn = {}
                /\ cardsFile = Some(StringifyCards(giftCards))
                /\ priceFile = Some(StringifyPrice(currentPrice))

\* the answer to a price update that was alone in flight
C12_Witness ==
    \E s \in Slots :
        /\ tasks[s].phase = "done"
        /\ tasks[s].alone
        /\ ~tasks[s].failed
        /\ tasks[s].route = "price"
        /\ tasks[s].reply.status = 200
        /\ currentPrice # None
        /\ priceFile = Some(StringifyPrice(currentPrice))

\* the request of slot s has been answered after a saveData that wrote a
\* non-empty card map
AnsweredWriter(s) ==
    /\ tasks[s].phase = "done"
    /\ tasks[s].route # "signal"
    /\ ~tasks[s].failed
    /\ tasks[s].cards # <<>>

\* cards.json holds the view of one of the answered writers
C13_OneWritersView ==
    /\ \A s \in Slots : AnsweredWriter(s)
    /\ "cards" \notin torn
    => \E s \in Slots : cardsFile = Some(StringifyCards(tasks[s].cards))

\* a completed write of cards.json leaves the text its writer took when it
\* mutated the map, whatever memory holds by then
C13_LandsOwnSnapshot ==
    \A s \in Slots :
        /\ tasks[s].phase = "cards"
        /\ tasks'[s].phase = "price"
        /\ "cards" \notin torn'
        => cardsFile' = Some(StringifyCards(tasks[s].cards))

(* C13: with two mutating requests in flight cards.json ends up with the
   view of one writer only: each completed write leaves the card map as its
   writer serialised it and nothing merges it with later mutations, so
   that when both are answered the file is one of the two views.  The
   witness is the lost update: both answered with success, the file differs
   from memory and lacks an acknowledged card. *)
C13_LastWriterWins == []C13_OneWritersView /\ [][C13_LandsOwnSnapshot]_vars

\* both validate requests are answered with success and cards.json lacks
\* the card of one of them
C13_Witness ==
    /\ torn = {}
    /\ \A s \in Slots :
         /\ AnsweredWriter(s)
         /\ tasks[s].route = "validate"
         /\ tasks[s].reply.status = 200
         /\ tasks[s].reply.card # None
    /\ cardsFile # None
    /\ cardsFile # Some(StringifyCards(giftCards))
    /\ \E s \in Slots :
         /\ cardsFile = Some(StringifyCards(tasks[s].cards))
         /\ \E o \in Slots :
              /\ HasOwn(giftCards, tasks[o].body.code.chars)
              /\ ~HasOwn(ParseCards(The(cardsFile)),
                         tasks[o].body.code.chars)

\* the process starts after a crash that interrupted the flush of a request
\* which was alone in flight
RestartsAfterCrash == ~running /\ running' /\ dead # None

(* C14 as stated: after a crash during the flush of a request, the reloaded
   state is exactly the last fully flushed state, also when the crash falls
   between the two writes. *)
C14_ReloadIsLastFlushed ==
    [][/\ RestartsAfterCrash
       /\ flushed # None
       /\ The(dead).base = [cards |-> The(flushed).cards,
                            price |-> The(flushed).price]
       => /\ giftCards' = The(flushed).cards
          /\ currentPrice' = The(flushed).price]_vars

(* C14 amended: after a crash during the flush of a request that was alone
   in flight, each file is reloaded on its own.  A crash during the write
   of cards.json reloads the card map the file held before the request, or
   an empty map when the write was cut short, with the price unchanged; a
   crash during the write of price.json reloads the card map with the
   request's mutation, and the price the file held before, or null when
   the write was cut short. *)
C14_ReloadAfterCrash ==
    [][RestartsAfterCrash =>
        LET d == The(dead)
        IN  IF d.phase = "cards"
            THEN /\ giftCards' \in {d.base.cards, <<>>}
                 /\ "cards" \notin torn => giftCards' = d.base.cards
                 /\ currentPrice' = d.base.price
            ELSE /\ giftCards' = ParseCards(StringifyCards(d.cards))
                 /\ currentPrice' \in {d.base.price, None}
                 /\ "price" \notin torn => currentPrice' = d.base.price]_vars

\* a crash between the two writes of a flush that followed a complete one:
\* cards.json holds the new card, price.json the price of before
C14_Witness ==
    /\ ~running
    /\ dead # None
    /\ flushed # None
    /\ The(dead).phase = "price"
    /\ The(dead).base = [cards |-> The(flushed).cards,
                         price |-> The(flushed).price]
    /\ torn = {}
    /\ LoadedCards = The(dead).cards
    /\ LoadedCards # The(flushed).cards
    /\ LoadedPrice = The(flushed).price

\* loadData has run for a process that starts
C15_EachFileOnItsOwn ==
    ~running /\ running' =>
        /\ giftCards' = IF cardsFile = None \/ "cards" \in torn THEN <<>>
                        ELSE ParseCards(The(cardsFile))
        /\ currentPrice' = IF priceFile = None \/ "price" \in torn THEN None
                           ELSE ParsePrice(The(priceFile))

(* C15: at startup each file is loaded on its own: a missing or unparsable
   cards.json gives an empty card map, a missing or unparsable price.json
   gives a null price, the other file is loaded in full, and a process
   that is not running can always start. *)
C15_LoadNeverFails ==
    [](~running => ENABLED Start) /\ [][C15_EachFileOnItsOwn]_vars

\* started with a cards.json that had a card and was cut short, and with the
\* price of price.json
C15_Witness ==
    /\ running
    /\ "cards" \in torn
    /\ "price" \notin torn
    /\ cardsFile # None
    /\ The(cardsFile) # <<>>
    /\ giftCards = <<>>
    /\ currentPrice # None
    /\ priceFile = Some(StringifyPrice(currentPrice))

\* no code has two records
C18_OneRecordPerCode ==
    \A i, j \in 1..Len(giftCards) :
        giftCards[i].key = giftCards[j].key => i = j

\* the answers to two validate requests of one code carry the record that is
\* in memory under that code, as it was created
C18_SameRecordReturned ==
    \A s, o \in Slots :
        /\ tasks[s].phase = "done" /\ tasks[o].phase = "done"
        /\ tasks[s].route = "validate" /\ tasks[o].route = "validate"
        /\ tasks[s].body.code = tasks[o].body.code
        => LET k == tasks[s].body.code.chars
               a == tasks[s].reply.card
               b == tasks[o].reply.card
           IN  /\ tasks[s].reply.status = 200
               /\ a # None /\ b # None
               /\ HasOwn(giftCards, k)
               /\ The(a).code = The(b).code
               /\ The(a).createdAt = The(b).createdAt
               /\ The(a).createdAt = OwnValue(giftCards, k).createdAt

\* a validate that arrives for a code that has a record leaves the card map
\* as it is and does not call saveData; one that arrives for a code without a
\* record adds one record; no step of the running process changes the
\* createdAt of a record
C18_CheckAndInsertInOneStep ==
    /\ \A s \in Slots :
         /\ tasks[s].phase = "idle"
         /\ tasks'[s].route = "validate"
         => IF HasOwn(giftCards, tasks'[s].body.code.chars)
            THEN giftCards' = giftCards /\ tasks'[s].phase = "done"
            ELSE /\ Len(giftCards') = Len(giftCards) + 1
                 /\ tasks'[s].phase = "cards"
    /\ running /\ running' => KeepsCreated(giftCards, giftCards')

(* C18: under every interleaving, validate requests for the same unseen
   code create exactly one record: the check and the insertion are one
   uninterrupted step, the record and its createdAt are never overwritten by
   a later validate, and both answers return that record. *)
C18_ValidateCreatesOneRecord ==
    /\ [](C18_OneRecordPerCode /\ C18_SameRecordReturned)
    /\ [][C18_CheckAndInsertInOneStep]_vars

\* two validate requests of one code, the second arrived later while the
\* first was suspended in saveData, both answered with the record of the first
C18_Witness ==
    /\ now = 1
    /\ \A s \in Slots :
         /\ tasks[s].phase = "done"
         /\ tasks[s].route = "validate"
         /\ tasks[s].body.code = CodeStr(CodeA1)
         /\ tasks[s].reply.status = 200
         /\ tasks[s].reply.card # None
         /\ The(tasks[s].reply.card).createdAt = 0
    /\ \E s, o \in Slots : tasks[s].cards # <<>> /\ tasks[o].cards = <<>>
    /\ Len(giftCards) = 1

====
